---- MODULE Spec2Model ----
(***************************************************************************)
(* sol_factory: placeholder issuance (CreatePlaceholder::create) and the   *)
(* signature-gated claim (AirdropPlaceholder::airdrop).                    *)
(*                                                                         *)
(* One step of the model is one transaction that carries one call of the  *)
(* program.  A call that returns an error aborts its transaction, so the   *)
(* accounts keep their values; only the record of the call (last) changes. *)
(***************************************************************************)
EXTENDS Integers, Sequences, FiniteSets, TLC

(* ------------------------------ bounds -------------------------------- *)
\* largest max_supply a registered collection is given
MaxSupply == 2
\* largest position of the airdrop instruction in its transaction
MaxIndex == 1

(* ---------------------------- identities ------------------------------ *)
\* constant::admin_wallet::id()
ADMIN_WALLET == 1
\* the wallets that sign, pay and receive
Keys == {1, 2}
\* the program-derived address with seeds [b"auth"]
AUTH == 9
\* constant::ED25519_PROGRAM_ID
ED25519_PROGRAM_ID == 7
\* some program that is not the Ed25519 program
OTHER_PROGRAM_ID == ED25519_PROGRAM_ID + 1
\* the addresses of the registered Collection accounts
Collections == {"colA", "colB"}
\* one Placeholder id for each collection: two Mints in all
Ids == {1}
\* a Placeholder address is derived from (collection address, id); its Mint
\* address is derived from the Placeholder address
PhKeys == Collections \X Ids
\* a recipient token account address is derived from (buyer, mint)
AtaKeys == Keys \X PhKeys
Uris == {"uri"}
Times == {1700}

(* ------------------------- state of the ledger ------------------------- *)
VARIABLES
    protocol,     \* Protocol {locked}
    admin_state,  \* signer key -> Admin account at [b"admin_state", key]
    collection,   \* collection address -> Collection
    placeholder,  \* (collection, id) -> Placeholder account
    mint,         \* (collection, id) -> the Mint at [b"mint", placeholder]
    ata,          \* (buyer, mint) -> recipient token account
    last,         \* the last call: its inputs and what it returned
    authorized_by \* (collection, id) -> data of the signature instruction
                  \* that preceded the claim which minted the Mint (history)

vars == <<protocol, admin_state, collection, placeholder, mint, ata, last,
          authorized_by>>

\* Option<Pubkey> / COption<Pubkey>: <<>> is None, <<k>> is Some(k)
None == <<>>
Some(k) == <<k>>

(* ------------------------------ strings ------------------------------- *)
Digit(d) ==
    CASE d = 0 -> "0" [] d = 1 -> "1" [] d = 2 -> "2" [] d = 3 -> "3"
      [] d = 4 -> "4" [] d = 5 -> "5" [] d = 6 -> "6" [] d = 7 -> "7"
      [] d = 8 -> "8" [] d = 9 -> "9"

RECURSIVE DecString(_)
\* u64::to_string / i64::to_string of a non-negative number
DecString(n) == IF n < 10 THEN Digit(n) ELSE DecString(n \div 10) \o Digit(n % 10)

(* ------------------------- account records ---------------------------- *)
\* state.rs Collection (the fields the two handlers read or write)
CollectionName(c) == IF c = "colA" THEN "A" ELSE "B"
CollectionSymbol(c) == IF c = "colA" THEN "SA" ELSE "SB"
CollectionPrice(c) == IF c = "colA" THEN 5 ELSE 10

NoPlaceholder ==
    [initialized |-> FALSE, id |-> 0, collection |-> "", reference |-> "",
     name |-> "", price |-> 0, time_stamp |-> 0]

NoMetadata ==
    [update_authority |-> None, name |-> "", symbol |-> "", uri |-> "",
     additional_metadata |-> <<>>]

NoMint ==
    [initialized |-> FALSE, mint_authority |-> None, freeze_authority |-> None,
     supply |-> 0, decimals |-> 0, permanent_delegate |-> None,
     close_authority |-> None, metadata_pointer |-> None, metadata |-> NoMetadata]

NoAta == [initialized |-> FALSE, owner |-> 0, amount |-> 0]

(* --------------------- transaction introspection ---------------------- *)
\* Pubkey::to_bytes: 32 bytes, different at every position for different keys
KeyByte(k, i) == (k * 32 + i) % 256
\* (tabulated once: SubSeq and @@ make the bytes explicit values)
KeyBytesTable == [k \in Keys |-> SubSeq([i \in 1..32 |-> KeyByte(k, i)], 1, 32)] @@ <<>>
KeyBytes(k) == KeyBytesTable[k]

\* Pubkey::from([u8; 32])
PubkeyFrom(b) == IF \E k \in Keys : KeyBytes(k) = b
                 THEN CHOOSE k \in Keys : KeyBytes(k) = b
                 ELSE 0

\* byte ranges of the Ed25519 instruction data the handler reads
SIGNER_START == 16
SIGNER_END == 48
MESSAGE_START == 112
MESSAGE_END == 144

\* An instruction of the transaction, named by what its data carries: the
\* key written at bytes [16,48), the key written at bytes [112,144), and the
\* length of the data.
Instructions ==
    \* signed by the administrator for either wallet, or by someone else
    [program_id : {ED25519_PROGRAM_ID}, signer : {ADMIN_WALLET}, message : Keys,
     len : {144}]
    \cup [program_id : {ED25519_PROGRAM_ID}, signer : Keys \ {ADMIN_WALLET},
          message : {2}, len : {144}]
    \* data that ends before byte 48, or before byte 144
    \cup [program_id : {ED25519_PROGRAM_ID}, signer : {ADMIN_WALLET}, message : {2},
          len : {16}]
    \cup [program_id : {ED25519_PROGRAM_ID}, signer : Keys, message : {2}, len : {100}]
    \* an instruction of another program
    \cup [program_id : {OTHER_PROGRAM_ID}, signer : {ADMIN_WALLET}, message : {2},
          len : {144}]

NoInstruction == [program_id |-> 0, signer |-> 0, message |-> 0, len |-> 0]

\* Instruction.data of every such instruction
InstructionDataTable ==
    [ix \in Instructions \cup {NoInstruction} |->
        SubSeq([i \in 1..ix.len |->
                   IF i > 16 /\ i <= 48 THEN KeyByte(ix.signer, i - 16)
                   ELSE IF i > 112 /\ i <= 144 THEN KeyByte(ix.message, i - 112)
                   ELSE 0], 1, ix.len)] @@ <<>>
InstructionData(ix) == InstructionDataTable[ix]

\* The instruction list of the transaction whose instruction at position
\* `index` is the airdrop call and whose instruction before it is `prev`.
Transaction(index, prev) ==
    [i \in 1..(index + 1) |->
        IF i = index THEN prev ELSE NoInstruction]

\* load_instruction_at_checked(i, ixs): Err when i is out of range
LoadInstructionAtChecked(i, tx) ==
    IF i >= 0 /\ i < Len(tx) THEN [ok |-> TRUE, ix |-> tx[i + 1]]
    ELSE [ok |-> FALSE, ix |-> NoInstruction]

\* &data[a..b] panics when b exceeds the length
SliceInRange(data, a, b) == a <= b /\ b <= Len(data)
Slice(data, a, b) == SubSeq(data, a + 1, b)

(* --------------------------- record of a call ------------------------- *)
\* A call that returned Ok is recorded with the accounts it was given and
\* its position in the transaction; an aborted transaction leaves nothing
\* but the error and the line that returned it.
Returned(op, res, line, c, ph, index) ==
    [op |-> op, res |-> res, line |-> line, collection |-> c, ph |-> ph, index |-> index]
Aborted(op, res, line) == Returned(op, res, line, "", <<"", 0>>, 0)

(* ------------- the token programs the handlers call into -------------- *)
\* associated_token::create (the non-idempotent Create instruction): the
\* address must not hold a token account yet
AssociatedTokenCreate(mints, atas, buyer, ph) ==
    IF atas[<<buyer, ph>>].initialized
    THEN [ok |-> FALSE, err |-> "IllegalOwner", ata |-> atas]
    ELSE IF ~mints[ph].initialized
    THEN [ok |-> FALSE, err |-> "InvalidMint", ata |-> atas]
    ELSE [ok |-> TRUE, err |-> "",
          ata |-> [atas EXCEPT ![<<buyer, ph>>] =
                      [initialized |-> TRUE, owner |-> buyer, amount |-> 0]]]

\* mutant: a mint without mint-authority is not refused
TokenMintToUnchecked(mints, atas, ph, to, authority, amount) ==
    IF ~mints[ph].initialized \/ ~atas[to].initialized
    THEN [ok |-> FALSE, err |-> "UninitializedAccount", mint |-> mints, ata |-> atas]
    ELSE [ok |-> TRUE, err |-> "",
          mint |-> [mints EXCEPT ![ph].supply = @ + amount],
          ata |-> [atas EXCEPT ![to].amount = @ + amount]]

\* token_interface::mint_to: only the mint's mint-authority may mint
TokenMintTo(mints, atas, ph, to, authority, amount) ==
    IF ~mints[ph].initialized \/ ~atas[to].initialized
    THEN [ok |-> FALSE, err |-> "UninitializedAccount", mint |-> mints, ata |-> atas]
    ELSE IF mints[ph].mint_authority = None
    THEN [ok |-> FALSE, err |-> "FixedSupply", mint |-> mints, ata |-> atas]
    ELSE IF mints[ph].mint_authority # Some(authority)
    THEN [ok |-> FALSE, err |-> "OwnerMismatch", mint |-> mints, ata |-> atas]
    ELSE [ok |-> TRUE, err |-> "",
          mint |-> [mints EXCEPT ![ph].supply = @ + amount],
          ata |-> [atas EXCEPT ![to].amount = @ + amount]]

\* token_interface::set_authority(AuthorityType::MintTokens, new)
TokenSetAuthority(mints, ph, current_authority, new) ==
    IF ~mints[ph].initialized
    THEN [ok |-> FALSE, err |-> "UninitializedAccount", mint |-> mints]
    ELSE IF mints[ph].mint_authority = None
    THEN [ok |-> FALSE, err |-> "FixedSupply", mint |-> mints]
    ELSE IF mints[ph].mint_authority # Some(current_authority)
    THEN [ok |-> FALSE, err |-> "OwnerMismatch", mint |-> mints]
    ELSE [ok |-> TRUE, err |-> "",
          mint |-> [mints EXCEPT ![ph].mint_authority = new]]

(* ------------------- AirdropPlaceholder::airdrop ---------------------- *)
\* what a call leaves behind: its result and the accounts it writes
Outcome(res, line, c, m, a) ==
    [res |-> res, line |-> line, collection |-> c, mint |-> m, ata |-> a]
\* an error returned at `line` aborts the transaction: the accounts are as
\* before the call
Fail(err, line) == Outcome(err, line, collection, mint, ata)

\* mutant: the guard admits total_supply = max_supply
AirdropSupplyGuardLoose(c) == collection[c].max_supply >= collection[c].total_supply

\* require!(self.collection.max_supply > self.collection.total_supply, SoldOut)
AirdropSupplyGuard(c) == collection[c].max_supply > collection[c].total_supply

\* mutant: the signature instruction is looked for at every position
ChecksSignatureAlways(current_index) == current_index >= 0

\* if current_index > 0 { ... }
ChecksSignature(current_index) == current_index > 0

\* admin_wallet::id().to_bytes().eq(&signature_ix.data[16..48])
SignerMatches(data) == KeyBytes(ADMIN_WALLET) = Slice(data, SIGNER_START, SIGNER_END)

\* mutant: the embedded recipient is not compared with the buyer
BuyerMatchesAny(data, buyer) == TRUE

\* Pubkey::from(data[112..144]) == *self.buyer.key
BuyerMatches(data, buyer) ==
    PubkeyFrom(Slice(data, MESSAGE_START, MESSAGE_END)) = buyer

\* mint_to(.., 1)
MintAmount == 1

\* mutant: the claim is not counted
IncrementSupplyForgotten(cols, c) == cols

\* self.collection.total_supply += 1
IncrementSupply(cols, c) == [cols EXCEPT ![c].total_supply = @ + 1]

\* mutant: the authority is handed back to the protocol authority
RevokedAuthorityKept == Some(AUTH)

\* set_authority(.., AuthorityType::MintTokens, None)
RevokedAuthority == None

\* lines 170-231: create the token account, mint, count, revoke, check
MintAndRevoke(buyer, c, ph) ==
    LET created == AssociatedTokenCreate(mint, ata, buyer, ph) IN
    IF ~created.ok THEN Fail(created.err, 183)
    ELSE
    LET minted == TokenMintTo(mint, created.ata, ph, <<buyer, ph>>, AUTH, MintAmount) IN
    IF ~minted.ok THEN Fail(minted.err, 206)
    ELSE
    LET cols == IncrementSupply(collection, c)
        revoked == TokenSetAuthority(minted.mint, ph, AUTH, RevokedAuthority)
    IN
    IF ~revoked.ok THEN Fail(revoked.err, 221)
    ELSE IF minted.ata[<<buyer, ph>>].amount # 1 THEN Fail("InvalidBalancePostMint", 230)
    ELSE Outcome("Ok", 243, cols, revoked.mint, minted.ata)

\* mutant: the program of the preceding instruction is not looked at
IsEd25519Any(ix) == TRUE

\* Pubkey::from_str(ED25519_PROGRAM_ID).unwrap() == signature_ix.program_id
IsEd25519(ix) == ix.program_id = ED25519_PROGRAM_ID

\* lines 141-241: the instruction before the current one decides
CheckSignatureAndMint(buyer, c, ph, current_index, tx) ==
    LET loaded == LoadInstructionAtChecked(current_index - 1, tx)
        data == InstructionData(loaded.ix)
    IN
    IF ~loaded.ok THEN Fail("InstructionsNotCorrect", 239)
    ELSE IF ~IsEd25519(loaded.ix) THEN Fail("InstructionsNotCorrect", 234)
    ELSE IF ~SliceInRange(data, SIGNER_START, SIGNER_END) THEN Fail("Panic", 148)
    ELSE IF ~SignerMatches(data) THEN Fail("UnauthorizedAdmin", 145)
    ELSE IF ~SliceInRange(data, MESSAGE_START, MESSAGE_END) THEN Fail("Panic", 153)
    ELSE IF ~BuyerMatches(data, buyer) THEN Fail("UnauthorizedAdmin", 156)
    ELSE MintAndRevoke(buyer, c, ph)

\* The whole call: account validation, then the handler.  c is the
\* Collection account passed, ph the Placeholder account passed (its Mint and
\* the buyer's token account are derived from it), index the position of
\* the call in its transaction and prev the instruction before it.
AirdropOutcome(buyer, payer, c, ph, index, prev) ==
    IF ~placeholder[ph].initialized THEN Fail("AccountNotInitialized", 62)
    ELSE IF protocol.locked THEN Fail("ProtocolLocked", 114)
    ELSE IF payer # ADMIN_WALLET THEN Fail("UnauthorizedAdmin", 115)
    ELSE IF ~AirdropSupplyGuard(c) THEN Fail("SoldOut", 124)
    ELSE IF ChecksSignature(index)
    THEN CheckSignatureAndMint(buyer, c, ph, index, Transaction(index, prev))
    ELSE Outcome("Ok", 243, collection, mint, ata)

Airdrop(buyer, payer, c, ph, index, prev) ==
    \E out \in {AirdropOutcome(buyer, payer, c, ph, index, prev)} :
    /\ collection' = out.collection
    /\ mint' = out.mint
    /\ ata' = out.ata
    /\ last' = IF out.res = "Ok"
               THEN Returned("airdrop", out.res, out.line, c, ph, index)
               ELSE Aborted("airdrop", out.res, out.line)
    /\ authorized_by' = IF out.res = "Ok" /\ ChecksSignature(index)
                        THEN [authorized_by EXCEPT ![ph] = InstructionData(prev)]
                        ELSE authorized_by
    /\ UNCHANGED <<protocol, admin_state, placeholder>>

(* -------------------- CreatePlaceholder::create ----------------------- *)
\* mutant: issuance uses the strict guard of the claim
CreateSupplyGuardStrict(c) == collection[c].max_supply > collection[c].total_supply

\* if self.collection.total_supply > self.collection.max_supply { SoldOut }
CreateSupplyGuard(c) == ~(collection[c].total_supply > collection[c].max_supply)

\* mutant: the record is bound to the collection's reference string, not to
\* the address of the Collection account
NewPlaceholderByReference(c, id, now) ==
    [initialized |-> TRUE, id |-> id, collection |-> collection[c].reference,
     reference |-> collection[c].reference, name |-> collection[c].name,
     price |-> collection[c].price, time_stamp |-> now]

\* self.placeholder.set_inner(Placeholder { .. })
NewPlaceholder(c, id, now) ==
    [initialized |-> TRUE, id |-> id, collection |-> c,
     reference |-> collection[c].reference, name |-> collection[c].name,
     price |-> collection[c].price, time_stamp |-> now]

\* "Placeholder for".to_string() + &self.collection.name
MetadataName(c) == "Placeholder for" \o collection[c].name

\* metadata.additional_metadata
AdditionalMetadata(c, id, now) ==
    << <<"id", DecString(id)>>,
       <<"count", DecString(collection[c].total_supply + 1)>>,
       <<"timestamp", DecString(now)>>,
       <<"price", DecString(collection[c].price)>>,
       <<"collection", collection[c].name>>,
       <<"collection key", c>> >>

\* initialize_mint2(.., &auth, None, 0)
InitialMintAuthority == Some(AUTH)

\* lines 142-250: the Mint account with its extensions and its metadata
NewMint(c, id, uri, now) ==
    [initialized |-> TRUE,
     mint_authority |-> InitialMintAuthority,
     freeze_authority |-> None,
     supply |-> 0,
     decimals |-> 0,
     permanent_delegate |-> Some(AUTH),
     close_authority |-> Some(AUTH),
     metadata_pointer |-> Some(<<c, id>>),
     metadata |-> [update_authority |-> Some(AUTH),
                   name |-> MetadataName(c),
                   symbol |-> collection[c].symbol,
                   uri |-> uri,
                   additional_metadata |-> AdditionalMetadata(c, id, now)]]

\* mutant: the placeholder account is taken over when it already exists
\* (init_if_needed)
PlaceholderInitIfNeeded(c, id) == TRUE

\* #[account(init, seeds = [b"placeholder", collection, id], ..)]: the
\* address derived from (collection, id) must not hold an account yet
PlaceholderInit(c, id) == ~placeholder[<<c, id>>].initialized

\* mutant: issuance does not look at the lock
CreateLockGuardMissing == TRUE

\* require!(!self.protocol.locked, ProtocolLocked)
CreateLockGuard == ~protocol.locked

\* The whole call: account validation (admin_state must exist, `init` of
\* the placeholder needs an unused address), then the handler.
CreateResult(signer, c, id) ==
    IF ~admin_state[signer].initialized THEN <<"AccountNotInitialized", 30>>
    ELSE IF ~PlaceholderInit(c, id) THEN <<"AccountAlreadyInUse", 43>>
    ELSE IF ~CreateLockGuard THEN <<"ProtocolLocked", 87>>
    ELSE IF admin_state[signer].publickey # signer THEN <<"UnauthorizedAdmin", 88>>
    ELSE IF ~CreateSupplyGuard(c) THEN <<"SoldOut", 91>>
    ELSE IF mint[<<c, id>>].initialized THEN <<"AccountAlreadyInUse", 155>>
    ELSE <<"Ok", 252>>

Create(signer, c, id, uri, now) ==
    \E res \in {CreateResult(signer, c, id)} :
    /\ IF res[1] = "Ok"
       THEN /\ placeholder' = [placeholder EXCEPT ![<<c, id>>] = NewPlaceholder(c, id, now)]
            /\ mint' = [mint EXCEPT ![<<c, id>>] = NewMint(c, id, uri, now)]
       ELSE UNCHANGED <<placeholder, mint>>
    /\ last' = IF res[1] = "Ok"
               THEN Returned("create", res[1], res[2], c, <<c, id>>, 0)
               ELSE Aborted("create", res[1], res[2])
    /\ UNCHANGED <<protocol, admin_state, collection, ata, authorized_by>>

(* ---------------------------- environment ----------------------------- *)
\* Anyone may create the associated token account of any wallet for an
\* existing mint: buyer_mint_ata is an UncheckedAccount that may already hold
\* a token account when airdrop is called.
CreateTokenAccount(buyer, ph) ==
    LET created == AssociatedTokenCreate(mint, ata, buyer, ph) IN
    /\ created.ok
    /\ ata' = created.ata
    /\ last' = Returned("create_ata", "Ok", 0, "", ph, 0)
    /\ UNCHANGED <<protocol, admin_state, collection, placeholder, mint, authorized_by>>

\* Protocol.locked is set and cleared by the administrative instructions
SetLocked(b) ==
    /\ protocol.locked # b
    /\ protocol' = [locked |-> b]
    /\ last' = Aborted("set_locked", "Ok", 0)
    /\ UNCHANGED <<admin_state, collection, placeholder, mint, ata, authorized_by>>

(* --------------------------- specification ---------------------------- *)
NewCollection(c, max_supply) ==
    [reference |-> c \o "-ref", name |-> CollectionName(c),
     symbol |-> CollectionSymbol(c), price |-> CollectionPrice(c),
     max_supply |-> max_supply, total_supply |-> 0]

Init ==
    /\ protocol = [locked |-> FALSE]
    /\ admin_state = [k \in Keys |->
                        IF k = ADMIN_WALLET
                        THEN [initialized |-> TRUE, publickey |-> k]
                        ELSE [initialized |-> FALSE, publickey |-> 0]]
    /\ collection = [c \in Collections |->
                        NewCollection(c, IF c = "colA" THEN MaxSupply - 1 ELSE MaxSupply)]
    /\ placeholder = [ph \in PhKeys |-> NoPlaceholder]
    /\ mint = [ph \in PhKeys |-> NoMint]
    /\ ata = [a \in AtaKeys |-> NoAta]
    /\ last = Aborted("init", "Ok", 0)
    /\ authorized_by = [ph \in PhKeys |-> <<>>]

DoCreate == \E signer \in Keys, c \in Collections, id \in Ids, uri \in Uris, now \in Times :
                Create(signer, c, id, uri, now)

DoAirdrop == \E buyer \in Keys, payer \in Keys, c \in Collections, ph \in PhKeys :
                \/ Airdrop(buyer, payer, c, ph, 0, NoInstruction)
                \/ \E index \in 1..MaxIndex, prev \in Instructions :
                      Airdrop(buyer, payer, c, ph, index, prev)

DoCreateTokenAccount == \E buyer \in Keys, ph \in PhKeys : CreateTokenAccount(buyer, ph)

DoSetLocked == \E b \in BOOLEAN : SetLocked(b)

Next == DoCreate \/ DoAirdrop \/ DoCreateTokenAccount \/ DoSetLocked

Spec == Init /\ [][Next]_vars

(* ------------------------- calls of the handlers ---------------------- *)
\* every input of airdrop within the bounds
AirdropCalls ==
    [buyer : Keys, payer : Keys, c : Collections, ph : PhKeys,
     index : {0}, prev : {NoInstruction}]
    \cup [buyer : Keys, payer : Keys, c : Collections, ph : PhKeys,
          index : 1..MaxIndex, prev : Instructions]

\* the calls whose accounts validate, so that the handler runs: the
\* Placeholder account passed exists
AirdropHandlerCalls == {call \in AirdropCalls : placeholder[call.ph].initialized}

OutcomeOf(call) ==
    AirdropOutcome(call.buyer, call.payer, call.c, call.ph, call.index, call.prev)

NoChange(out) == out.collection = collection /\ out.mint = mint /\ out.ata = ata

\* the lock, fee-payer and sold-out preconditions of airdrop
PassesPreconditions(call) ==
    /\ ~protocol.locked
    /\ call.payer = ADMIN_WALLET
    /\ collection[call.c].max_supply > collection[call.c].total_supply

\* the unit of the Mint has been minted
Claimed(ph) == mint[ph].initialized /\ mint[ph].supply > 0

LastMinted == last.op = "airdrop" /\ last.res = "Ok" /\ last.index >= 1

(* -------------------------------- C1 ---------------------------------- *)
\* C1: in every reachable state every Collection has
\* total_supply <= max_supply.
C1_SupplyWithinMax ==
    \A c \in Collections : collection[c].total_supply <= collection[c].max_supply

\* a claim has just brought a collection to its ceiling
C1_Witness ==
    /\ LastMinted
    /\ collection[last.collection].total_supply = collection[last.collection].max_supply

(* -------------------------------- C2 ---------------------------------- *)
\* C2 as stated: once the unit of a Mint is minted, every airdrop call on
\* that Mint returns an error and changes no state, at every position.
C2_Original ==
    \A call \in AirdropHandlerCalls :
        Claimed(call.ph) =>
            \E out \in {OutcomeOf(call)} : out.res # "Ok" /\ NoChange(out)

\* C2 amended: once the unit of a Mint is minted, no airdrop call on that
\* Mint changes any state, and every such call at index >= 1 returns an
\* error (a call at index 0 may return Ok).
C2_ClaimNotRepeatable ==
    \A call \in AirdropHandlerCalls :
        Claimed(call.ph) =>
            \E out \in {OutcomeOf(call)} :
                /\ NoChange(out)
                /\ call.index >= 1 => out.res # "Ok"

\* a second claim of a minted Mint got as far as mint_to and was refused
C2_Witness ==
    /\ last.op = "airdrop"
    /\ last.res = "FixedSupply"
    /\ \E ph \in PhKeys : Claimed(ph)

(* -------------------------------- C3 ---------------------------------- *)
\* C3 as stated: after every airdrop call that returned Ok the Mint it was
\* called on has no mint-authority.
C3_Original ==
    (last.op = "airdrop" /\ last.res = "Ok") => mint[last.ph].mint_authority = None

\* C3 amended: after every airdrop call at index >= 1 that returned Ok the
\* Mint it was called on has no mint-authority.
C3_AuthorityRevoked ==
    LastMinted => mint[last.ph].mint_authority = None

\* a claim at index >= 1 has returned Ok on a Mint that had not been claimed
C3_Witness ==
    /\ LastMinted
    /\ mint[last.ph].supply = 1
    /\ \E b \in Keys : ata[<<b, last.ph>>].amount = 1

(* -------------------------------- C4 ---------------------------------- *)
\* C4 as stated: every airdrop call that returns Ok raises total_supply of
\* the Collection passed by exactly 1, and nothing else changes a
\* total_supply.
C4_Original ==
    [][ IF last'.op = "airdrop" /\ last'.res = "Ok"
        THEN collection' = [collection EXCEPT ![last'.collection].total_supply = @ + 1]
        ELSE collection' = collection ]_vars

\* C4 amended: every airdrop call at index >= 1 that returns Ok raises
\* total_supply of the Collection passed by exactly 1, and nothing else (no
\* issuance, no failed claim, no claim at index 0) changes a total_supply.
C4_CountedOncePerClaim ==
    [][ IF last'.op = "airdrop" /\ last'.res = "Ok" /\ last'.index >= 1
        THEN collection' = [collection EXCEPT ![last'.collection].total_supply = @ + 1]
        ELSE collection' = collection ]_vars

\* a claim has been counted on a collection that had claims before
C4_Witness ==
    /\ LastMinted
    /\ collection[last.collection].total_supply = 2

(* -------------------------------- C5 ---------------------------------- *)
\* C5 as stated: an airdrop call with no instruction before it, or with one
\* that is not an Ed25519 instruction, fails with InstructionsNotCorrect and
\* changes no state.
C5_Original ==
    \A call \in AirdropHandlerCalls :
        (call.index = 0 \/ call.prev.program_id # ED25519_PROGRAM_ID) =>
            \E out \in {OutcomeOf(call)} :
                out.res = "InstructionsNotCorrect" /\ NoChange(out)

\* C5 amended: an airdrop call with no instruction before it, or with one
\* that is not an Ed25519 instruction, changes no state; if it passes the
\* lock, fee-payer and sold-out preconditions and is at index >= 1, it fails
\* with InstructionsNotCorrect.
C5_NotEd25519Rejected ==
    \A call \in AirdropHandlerCalls :
        (call.index = 0 \/ call.prev.program_id # ED25519_PROGRAM_ID) =>
            \E out \in {OutcomeOf(call)} :
                /\ NoChange(out)
                /\ (PassesPreconditions(call) /\ call.index >= 1) =>
                      out.res = "InstructionsNotCorrect"

\* a call was refused for the instruction before it, with a Mint to claim
C5_Witness ==
    /\ last.op = "airdrop"
    /\ last.res = "InstructionsNotCorrect"
    /\ \E ph \in PhKeys : mint[ph].initialized /\ mint[ph].mint_authority = Some(AUTH)

(* -------------------------------- C6 ---------------------------------- *)
\* the instruction before the call is an Ed25519 instruction whose bytes
\* [16,48) are not the administrator's key, or whose bytes [112,144) are not
\* the key of the buyer passed
SignatureMismatch(call) ==
    /\ call.index >= 1
    /\ call.prev.program_id = ED25519_PROGRAM_ID
    /\ \/ /\ call.prev.len >= 48
          /\ SubSeq(InstructionData(call.prev), 17, 48) # KeyBytes(ADMIN_WALLET)
       \/ /\ call.prev.len >= 144
          /\ SubSeq(InstructionData(call.prev), 113, 144) # KeyBytes(call.buyer)

\* C6 as stated: every airdrop call after an Ed25519 instruction that names
\* another signer or another recipient fails with UnauthorizedAdmin, mints
\* nothing and leaves total_supply unchanged.
C6_Original ==
    \A call \in AirdropHandlerCalls :
        SignatureMismatch(call) =>
            \E out \in {OutcomeOf(call)} :
                out.res = "UnauthorizedAdmin" /\ NoChange(out)

\* C6 amended: every such call mints nothing and leaves total_supply
\* unchanged, and if it passes the lock, fee-payer and sold-out preconditions
\* it fails with UnauthorizedAdmin.
C6_MismatchRejected ==
    \A call \in AirdropHandlerCalls :
        SignatureMismatch(call) =>
            \E out \in {OutcomeOf(call)} :
                /\ NoChange(out)
                /\ PassesPreconditions(call) => out.res = "UnauthorizedAdmin"

\* a call was refused because the signed message names another recipient
C6_Witness ==
    /\ last.op = "airdrop"
    /\ last.res = "UnauthorizedAdmin"
    /\ last.line = 156

(* -------------------------------- C7 ---------------------------------- *)
\* C7: an airdrop call at index 0 that passes the lock, fee-payer and
\* sold-out preconditions returns Ok and changes nothing: no token account
\* is created, the Mint and every total_supply are as before.
C7_IndexZeroNoOp ==
    \A call \in AirdropHandlerCalls :
        (call.index = 0 /\ PassesPreconditions(call)) =>
            \E out \in {OutcomeOf(call)} : out.res = "Ok" /\ NoChange(out)

\* a call at index 0 has returned Ok on a Mint that can still be claimed
C7_Witness ==
    /\ last.op = "airdrop"
    /\ last.res = "Ok"
    /\ last.index = 0
    /\ mint[last.ph].mint_authority = Some(AUTH)
    /\ mint[last.ph].supply = 0

(* -------------------------------- C8 ---------------------------------- *)
\* C8: on an unlocked protocol, paid by the administrator, an airdrop call
\* on a Collection with total_supply >= max_supply fails with SoldOut at
\* every index and after every instruction, and changes no state.
C8_SoldOutFirst ==
    \A call \in AirdropHandlerCalls :
        (/\ ~protocol.locked
         /\ call.payer = ADMIN_WALLET
         /\ collection[call.c].total_supply >= collection[call.c].max_supply) =>
            \E out \in {OutcomeOf(call)} : out.res = "SoldOut" /\ NoChange(out)

\* a call was refused as sold out while a Mint could still be claimed
C8_Witness ==
    /\ last.op = "airdrop"
    /\ last.res = "SoldOut"
    /\ \E ph \in PhKeys : mint[ph].initialized /\ mint[ph].mint_authority = Some(AUTH)

(* -------------------------------- C9 ---------------------------------- *)
\* index >= 1, the preconditions hold, the Mint is unclaimed and the
\* instruction before the call carries the administrator's key and the buyer
ValidClaim(call) ==
    /\ call.index >= 1
    /\ PassesPreconditions(call)
    /\ mint[call.ph].mint_authority = Some(AUTH)
    /\ mint[call.ph].supply = 0
    /\ call.prev.program_id = ED25519_PROGRAM_ID
    /\ call.prev.len >= 144
    /\ SubSeq(InstructionData(call.prev), 17, 48) = KeyBytes(ADMIN_WALLET)
    /\ SubSeq(InstructionData(call.prev), 113, 144) = KeyBytes(call.buyer)

\* C9: every such call returns Ok and leaves the buyer's token account with
\* balance 1, total_supply of the Collection passed raised by 1 and the Mint
\* without mint-authority.
C9_ValidClaimMints ==
    \A call \in AirdropHandlerCalls :
        ValidClaim(call) =>
            \E out \in {OutcomeOf(call)} :
            /\ out.res = "Ok"
            /\ out.ata[<<call.buyer, call.ph>>].amount = 1
            /\ out.collection[call.c].total_supply = collection[call.c].total_supply + 1
            /\ out.mint[call.ph].mint_authority = None

(* -------------------------------- C10 --------------------------------- *)
CreateCalls == [signer : Keys, c : Collections, id : Ids]

\* the calls whose accounts validate, so that the handler runs: the Admin
\* account of the signer exists and the Placeholder address is unused
CreateHandlerCalls ==
    {call \in CreateCalls :
        /\ admin_state[call.signer].initialized
        /\ ~placeholder[<<call.c, call.id>>].initialized}

\* total_supply > max_supply is false and the signer is the registered
\* administrator
IssuanceAllowed(call) ==
    /\ ~(collection[call.c].total_supply > collection[call.c].max_supply)
    /\ admin_state[call.signer].initialized
    /\ admin_state[call.signer].publickey = call.signer

IssuedMintFresh(m) ==
    m.initialized /\ m.mint_authority = Some(AUTH) /\ m.supply = 0

\* C10 as stated: every such create call returns Ok and produces a Mint
\* with mint-authority = protocol authority and supply 0.
C10_Original ==
    \A call \in CreateHandlerCalls :
        IssuanceAllowed(call) => CreateResult(call.signer, call.c, call.id)[1] = "Ok"

\* C10 amended: every such create call on an unlocked protocol returns Ok,
\* and a create call that returned Ok has produced a Mint with
\* mint-authority = protocol authority and supply 0.
C10_IssuanceSucceeds ==
    /\ \A call \in CreateHandlerCalls :
          (IssuanceAllowed(call) /\ ~protocol.locked) =>
              CreateResult(call.signer, call.c, call.id)[1] = "Ok"
    /\ (last.op = "create" /\ last.res = "Ok") => IssuedMintFresh(mint[last.ph])

\* a Placeholder was issued for a collection that is at its ceiling
C10_Witness ==
    /\ last.op = "create"
    /\ last.res = "Ok"
    /\ collection[last.collection].total_supply = collection[last.collection].max_supply
    /\ IssuedMintFresh(mint[last.ph])

(* -------------------------------- C11 --------------------------------- *)
\* C11: every create call, whether it returns Ok or an error, leaves every
\* field of every Collection unchanged, and a create call with id = n that
\* returned Ok has produced a Placeholder with id = n bound to the
\* Collection it was called with.
C11_CreateLeavesCollection ==
    [][ last'.op = "create" =>
          /\ collection' = collection
          /\ last'.res = "Ok" =>
                /\ ~placeholder[last'.ph].initialized
                /\ placeholder'[last'.ph].initialized
                /\ placeholder'[last'.ph].id = last'.ph[2]
                /\ placeholder'[last'.ph].collection = last'.collection
                /\ last'.ph[1] = last'.collection ]_vars

\* a Placeholder was issued for a collection that has claims counted, and
\* the count is still what it was
C11_Witness ==
    /\ last.op = "create"
    /\ last.res = "Ok"
    /\ placeholder[last.ph].id = last.ph[2]
    /\ placeholder[last.ph].collection = last.collection
    /\ collection[last.collection].total_supply >= 1

(* -------------------------------- C12 --------------------------------- *)
\* C12: while Protocol.locked is true, every create call and every airdrop
\* call whose handler runs fails with ProtocolLocked, whatever its signer,
\* supply, instruction index and preceding instruction, and no create or
\* airdrop call returns Ok or changes any state.
C12_LockedRejectsAll ==
    /\ [](protocol.locked =>
            /\ \A call \in AirdropHandlerCalls :
                  \E out \in {OutcomeOf(call)} :
                      out.res = "ProtocolLocked" /\ NoChange(out)
            /\ \A call \in CreateHandlerCalls :
                  CreateResult(call.signer, call.c, call.id)[1] = "ProtocolLocked")
    /\ [][ (protocol.locked /\ last'.op \in {"create", "airdrop"}) =>
              /\ last'.res # "Ok"
              /\ UNCHANGED <<protocol, admin_state, collection, placeholder, mint, ata>> ]_vars

\* a claim of an issued, unclaimed Mint was refused on a locked protocol
\* while another Placeholder address was still free for issuance
C12_Witness ==
    /\ protocol.locked
    /\ last.op = "airdrop"
    /\ last.res = "ProtocolLocked"
    /\ \E ph \in PhKeys : mint[ph].initialized /\ mint[ph].supply = 0
    /\ \E ph \in PhKeys : ~placeholder[ph].initialized

(* -------------------------------- C13 --------------------------------- *)
\* C13: an otherwise valid airdrop call whose recipient token account
\* already exists with balance 0 does not fail at the account-creation step
\* (line 183) and completes the claim with balance exactly 1.
C13_TokenAccountCreationIdempotent ==
    \A call \in AirdropHandlerCalls :
        (/\ ValidClaim(call)
         /\ ata[<<call.buyer, call.ph>>].initialized
         /\ ata[<<call.buyer, call.ph>>].amount = 0) =>
            \E out \in {OutcomeOf(call)} :
            /\ out.line # 183
            /\ out.res = "Ok"
            /\ out.ata[<<call.buyer, call.ph>>].amount = 1

(* -------------------------------- C14 --------------------------------- *)
\* C14: the Placeholder of a (collection, id) pair lives at the one address
\* derived from the pair; a create call for a pair that already has a
\* Placeholder is rejected by the init constraint (AccountAlreadyInUse,
\* line 43) before the handler runs and leaves the existing Placeholder and
\* its Mint unchanged; an existing Placeholder is never modified by any
\* step, and no airdrop call modifies any Placeholder field.
C14_PlaceholderUnique ==
    [][ /\ \A call \in CreateCalls :
              (/\ admin_state[call.signer].initialized
               /\ placeholder[<<call.c, call.id>>].initialized) =>
                  CreateResult(call.signer, call.c, call.id) = <<"AccountAlreadyInUse", 43>>
        /\ \A call \in CreateCalls :
              placeholder[<<call.c, call.id>>].initialized =>
                  CreateResult(call.signer, call.c, call.id)[1] # "Ok"
        /\ \A ph \in PhKeys :
              placeholder[ph].initialized =>
                  /\ placeholder'[ph] = placeholder[ph]
                  /\ last'.op = "create" => mint'[ph] = mint[ph]
        /\ last'.op = "airdrop" => placeholder' = placeholder ]_vars

\* a second issuance for a pair whose Placeholder has been claimed was
\* rejected
C14_Witness ==
    /\ last.op = "create"
    /\ last.res = "AccountAlreadyInUse"
    /\ last.line = 43
    /\ \E ph \in PhKeys : placeholder[ph].initialized /\ Claimed(ph)

(* -------------------------------- C15 --------------------------------- *)
\* C15: after every create call that returned Ok the metadata record of the
\* Mint has name = "Placeholder for " (with a trailing space) followed by
\* collection.name, symbol = collection.symbol, a caller-supplied uri, and
\* the six additional fields in the order id, count
\* (= collection.total_supply + 1), timestamp, price, collection name,
\* collection address.
C15_MetadataAsSpecified ==
    (last.op = "create" /\ last.res = "Ok") =>
        \E md \in {mint[last.ph].metadata} :
        /\ md.name = "Placeholder for " \o collection[last.collection].name
        /\ md.symbol = collection[last.collection].symbol
        /\ md.uri \in Uris
        /\ Len(md.additional_metadata) = 6
        /\ md.additional_metadata[1] = <<"id", DecString(last.ph[2])>>
        /\ md.additional_metadata[2] =
              <<"count", DecString(collection[last.collection].total_supply + 1)>>
        /\ md.additional_metadata[3][1] = "timestamp"
        /\ md.additional_metadata[3][2] \in {DecString(now) : now \in Times}
        /\ md.additional_metadata[4] =
              <<"price", DecString(collection[last.collection].price)>>
        /\ md.additional_metadata[5] = <<"collection", collection[last.collection].name>>
        /\ md.additional_metadata[6] = <<"collection key", last.collection>>

(* -------------------------------- C16 --------------------------------- *)
\* C16: once a Mint has no mint-authority, every step of issuance and claim
\* calls leaves it without mint-authority and does not raise its supply,
\* and every airdrop call on it at index >= 1 fails without getting past
\* mint_to (it is not left to set_authority, line 221, or to the balance
\* check, line 230, to refuse it) and changes no state.
C16_RevocationPermanent ==
    /\ [][ \A ph \in PhKeys :
              (mint[ph].initialized /\ mint[ph].mint_authority = None) =>
                  /\ mint'[ph].initialized
                  /\ mint'[ph].mint_authority = None
                  /\ mint'[ph].supply <= mint[ph].supply ]_vars
    /\ [](\A call \in AirdropHandlerCalls :
              (mint[call.ph].mint_authority = None /\ call.index >= 1) =>
                  \E out \in {OutcomeOf(call)} :
                      /\ out.res # "Ok"
                      /\ out.line \notin {221, 230}
                      /\ NoChange(out))

\* a revoked Mint has seen a further claim attempt refused by mint_to and a
\* later issuance for another collection
C16_Witness ==
    /\ \E ph \in PhKeys :
          /\ mint[ph].initialized
          /\ mint[ph].mint_authority = None
          /\ mint[ph].supply = 1
    /\ \E ph \in PhKeys : mint[ph].initialized /\ mint[ph].mint_authority = Some(AUTH)
    /\ last.op = "airdrop"
    /\ last.res = "FixedSupply"
    /\ last.line = 206

(* -------------------------------- C17 --------------------------------- *)
\* the instruction before the call is an Ed25519 instruction carrying the
\* administrator's key and the call's buyer
SignedForBuyer(call) ==
    /\ call.index >= 1
    /\ call.prev.program_id = ED25519_PROGRAM_ID
    /\ call.prev.len >= 144
    /\ SubSeq(InstructionData(call.prev), 17, 48) = KeyBytes(ADMIN_WALLET)
    /\ SubSeq(InstructionData(call.prev), 113, 144) = KeyBytes(call.buyer)

RECURSIVE SumOf(_, _)
SumOf(f, S) ==
    IF S = {} THEN 0
    ELSE LET x == CHOOSE y \in S : TRUE IN f[x] + SumOf(f, S \ {x})

\* the claims counted by all collections, and the units minted by all Mints
ClaimsCounted == SumOf([c \in Collections |-> collection[c].total_supply], Collections)
UnitsMinted == SumOf([ph \in PhKeys |-> mint[ph].supply], PhKeys)

\* C17: transactions are serialized, so of two claims of one Mint, each at
\* index >= 1 and signed by the administrator for its own buyer, the later
\* one runs in the state the earlier one left.  Once the earlier one has
\* minted, the later one fails and leaves every total_supply, the Mint's
\* supply and the first buyer's balance unchanged; a Mint never has more
\* than one unit or more than one holder, and the claims counted by the
\* collections are exactly the units minted (one per minted Mint).
C17_RacingClaimsMintOnce ==
    /\ \A call \in AirdropHandlerCalls :
          (/\ SignedForBuyer(call)
           /\ \E first \in Keys \ {call.buyer} : ata[<<first, call.ph>>].amount = 1) =>
              \E out \in {OutcomeOf(call)} : out.res # "Ok" /\ NoChange(out)
    /\ \A ph \in PhKeys :
          /\ mint[ph].supply <= 1
          /\ Cardinality({b \in Keys : ata[<<b, ph>>].amount >= 1}) <= 1
    /\ ClaimsCounted = UnitsMinted

\* the later of two claims of one Mint was refused by mint_to: one buyer
\* holds the unit, the other buyer has no token account, one claim is counted
C17_Witness ==
    /\ last.op = "airdrop"
    /\ last.res = "FixedSupply"
    /\ \E ph \in PhKeys, first \in Keys, second \in Keys :
          /\ first # second
          /\ mint[ph].supply = 1
          /\ ata[<<first, ph>>].amount = 1
          /\ ~ata[<<second, ph>>].initialized
    /\ ClaimsCounted = 1

(* -------------------------------- C18 --------------------------------- *)
\* C18: an airdrop call that passes the lock, fee-payer and sold-out checks
\* and whose preceding instruction is an Ed25519 instruction with fewer than
\* 144 bytes of data fails with InstructionsNotCorrect and changes no state.
C18_ShortPayloadRejected ==
    \A call \in AirdropHandlerCalls :
        (/\ call.index >= 1
         /\ PassesPreconditions(call)
         /\ call.prev.program_id = ED25519_PROGRAM_ID
         /\ call.prev.len < MESSAGE_END) =>
            \E out \in {OutcomeOf(call)} :
                out.res = "InstructionsNotCorrect" /\ NoChange(out)

(* -------------------------------- C19 --------------------------------- *)
\* C19: in every reachable state every Mint created by create has supply 0
\* or 1, its supply is 1 exactly when it has no mint-authority and 0 exactly
\* when its mint-authority is the protocol authority, and no token account
\* for it holds more than 1.
C19_SupplyFollowsAuthority ==
    \A ph \in PhKeys :
        mint[ph].initialized =>
            /\ mint[ph].supply \in {0, 1}
            /\ mint[ph].supply = 1 <=> mint[ph].mint_authority = None
            /\ mint[ph].supply = 0 <=> mint[ph].mint_authority = Some(AUTH)
            /\ \A b \in Keys : ata[<<b, ph>>].amount <= 1

\* a claimed Mint next to an issued, unclaimed one
C19_Witness ==
    \E claimed \in PhKeys, fresh \in PhKeys :
        /\ mint[claimed].supply = 1
        /\ mint[claimed].mint_authority = None
        /\ \E b \in Keys : ata[<<b, claimed>>].amount = 1
        /\ mint[fresh].initialized
        /\ mint[fresh].supply = 0
        /\ mint[fresh].mint_authority = Some(AUTH)

(* -------------------------------- C20 --------------------------------- *)
\* the Placeholders of collection c whose unit has been minted
MintedPlaceholders(c) ==
    {ph \in PhKeys :
        placeholder[ph].initialized /\ placeholder[ph].collection = c /\ Claimed(ph)}

\* C20: the Collection a successful claim has guarded and counted is the one
\* its Placeholder belongs to, and for every collection C total_supply of C
\* equals the number of minted Placeholders of C, which is at most
\* C.max_supply.
C20_CountsOwnCollection ==
    /\ LastMinted => last.collection = placeholder[last.ph].collection
    /\ \A c \in Collections :
          /\ collection[c].total_supply = Cardinality(MintedPlaceholders(c))
          /\ Cardinality(MintedPlaceholders(c)) <= collection[c].max_supply

(* -------------------------------- C21 --------------------------------- *)
\* C21: no two Mints have been minted by claims that were authorized by
\* identical signature-instruction payloads: one administrator-signed
\* message naming a buyer authorizes the claim of at most one Placeholder.
C21_SignatureNotReplayable ==
    \A p \in PhKeys, q \in PhKeys :
        (/\ p # q
         /\ Claimed(p)
         /\ Claimed(q)) => authorized_by[p] # authorized_by[q]

====
